---------------------------- MODULE Spec2Model ----------------------------
(***************************************************************************)
(* Model of fetch_data.py (kittycapital/macro-dashboard): the driver main  *)
(* and its twelve jobs, the YoY derivation calc_yoy_from_index, the        *)
(* alignment of the five-country jobs, the yield-curve spread status and   *)
(* the CPI summary fields.                                                 *)
(*                                                                         *)
(* Numbers.  Dates "YYYY-MM-DD" are the integers YYYYMMDD, month labels    *)
(* "YYYY-MM" the integers YYYYMM and year labels "YYYY" the integers YYYY: *)
(* string equality, string order and the slices d[:7], d[:4] are integer   *)
(* equality, integer order and the divisions by 100, 10000.  Values are    *)
(* integers in thousandths where the code rounds to a number of decimals,  *)
(* and round(x, n) is rounding to a multiple of 10^(3-n), ties to even.    *)
(***************************************************************************)
EXTENDS Integers, Sequences, FiniteSets, TLC

VARIABLES
    \* ---- main and the twelve jobs
    FRED_KEY,       \* the credential read from the environment ("" when absent)
    pc,             \* position of main: "start", "tasks", "job", "done", "returned", "raised"
    ti,             \* index into tasks of the task being (or about to be) run
    site,           \* position of the running job: its next call site
    comp_yoy,       \* fetch_cpi_components: whether comp_yoy holds any component
    last_fetch,     \* how the running job's latest fred_fetch call ended ("none" before the first)
    started,        \* the tasks whose func() has been called, in call order
    failed,         \* the tasks for which main printed "failed"
    calls,          \* per task, the fred_fetch / save_json calls it made, in order
    files,          \* the data directory: per file name, who wrote it last
    \* ---- calc_yoy_from_index
    ypc,            \* "input", "returned", "raised"
    dates,          \* argument dates
    values,         \* argument values
    yoy_dates,      \* result, first component
    yoy_values,     \* result, second component
    \* ---- a five-country job (rates, debt/GDP, PMI, unemployment)
    apc,            \* "loop", "align", "save", "saved"
    ajob,           \* which of the four jobs runs
    ci,             \* index of the next country of the loop
    fetched,        \* per country: "none" (not yet), "raised", or the (d, v) returned
    series_data,    \* key -> (date -> value)
    all_dates,      \* set of date keys
    countries_info, \* key -> [current, prev_change]
    adoc,           \* the document given to save_json
    \* ---- yield curve spreads
    spc,            \* "fetch", "saved"
    rate_map,       \* label -> current rate (labels of failed fetches absent)
    spreads,        \* the "spreads" object of yield_curve.json
    \* ---- fetch_cpi
    cpc,            \* "fetch", "saved"
    h_in,           \* what fred_fetch("CPIAUCSL") returned
    c_in,           \* what fred_fetch("CPILFESL") returned
    cpi_doc,        \* the document given to save_json
    \* ---- fetch_yield_curve: the loop over the maturities
    kpc,            \* "loop", "saved"
    mi,             \* index of the next maturity of the loop
    curve_in,       \* per maturity: "none" (not yet), "raised", or the number of values returned
    mat_labels,
    current_rates,
    one_year_ago_rates,
    one_month_ago_rates,
    curve_doc,      \* the document given to save_json
    \* ---- fetch_cpi, fetch_ppi, fetch_cpi_components: the common date axis
    ipc,            \* "fetch", "saved", "returned", "raised"
    ijob,           \* which of the three jobs runs
    isite,          \* index of the job's next fred_fetch call
    series_in,      \* per call made: "raised" or the (dates, values) returned
    idoc            \* the document given to save_json

mainVars  == <<FRED_KEY, pc, ti, site, comp_yoy, last_fetch, started, failed, calls, files>>
yoyVars   == <<ypc, dates, values, yoy_dates, yoy_values>>
alignVars == <<apc, ajob, ci, fetched, series_data, all_dates, countries_info, adoc>>
yieldVars == <<spc, rate_map, spreads>>
cpiVars   == <<cpc, h_in, c_in, cpi_doc>>
curveVars == <<kpc, mi, curve_in, mat_labels, current_rates,
               one_year_ago_rates, one_month_ago_rates, curve_doc>>
inflVars  == <<ipc, ijob, isite, series_in, idoc>>
vars      == <<mainVars, yoyVars, alignVars, yieldVars, cpiVars, curveVars, inflVars>>

-----------------------------------------------------------------------------
(* Helpers *)

Last(s) == s[Len(s)]

Range(s) == {s[i] : i \in DOMAIN s}

\* n / d rounded to the nearest integer, ties to the even one (d # 0).
RoundDiv(n, d) ==
    LET nn == IF d < 0 THEN -n ELSE n
        dd == IF d < 0 THEN -d ELSE d
        q  == nn \div dd
        r  == nn % dd
    IN  IF 2 * r < dd THEN q
        ELSE IF 2 * r > dd THEN q + 1
        ELSE IF q % 2 = 0 THEN q ELSE q + 1

\* round(x, n) of a value x in thousandths, n in 0..3, in thousandths.
Pow10(k) == IF k = 0 THEN 1 ELSE IF k = 1 THEN 10 ELSE IF k = 2 THEN 100 ELSE 1000
round(x, n) == RoundDiv(x, Pow10(3 - n)) * Pow10(3 - n)

\* Python's sorted() of a set of integers: the ascending sequence of its elements.
RECURSIVE sorted(_)
sorted(S) ==
    IF S = {} THEN <<>>
    ELSE LET m == CHOOSE x \in S : \A y \in S : x <= y
         IN  <<m>> \o sorted(S \ {m})

\* dict(zip(d, v)): later pairs overwrite earlier ones with the same key.
dict_zip(d, v) ==
    LET n == IF Len(d) < Len(v) THEN Len(d) ELSE Len(v)
    IN  [k \in {d[i] : i \in 1..n} |->
            v[CHOOSE i \in 1..n : d[i] = k /\ \A j \in 1..n : d[j] = k => j <= i]]

-----------------------------------------------------------------------------
(* main and the twelve jobs *)

\* tasks: the (name, func) list of main, by name.
tasks ==
    << "Global M2", "Fed Balance Sheet", "Yield Curve", "NFCI",
       "Interest Rates", "Debt/GDP", "PMI", "Unemployment",
       "US CPI", "US PPI", "CPI Components", "Inflation Expectations" >>

TaskNames == Range(tasks)

\* The file name each job passes to save_json.
FileOf(t) ==
    CASE t = "Global M2"              -> "m2.json"
      [] t = "Fed Balance Sheet"      -> "fed_balance_sheet.json"
      [] t = "Yield Curve"            -> "yield_curve.json"
      [] t = "NFCI"                   -> "nfci.json"
      [] t = "Interest Rates"         -> "rates.json"
      [] t = "Debt/GDP"               -> "debt_gdp.json"
      [] t = "PMI"                    -> "pmi.json"
      [] t = "Unemployment"           -> "unemployment.json"
      [] t = "US CPI"                 -> "cpi.json"
      [] t = "US PPI"                 -> "ppi.json"
      [] t = "CPI Components"         -> "cpi_components.json"
      [] t = "Inflation Expectations" -> "inflation_expectations.json"

FileNames == {FileOf(t) : t \in TaskNames}

\* A fred_fetch call site: whether a try/except of the job encloses it.
Bare    == [handler |-> FALSE]
Guarded == [handler |-> TRUE]

\* The fred_fetch call sites of each job, in program order; save_json follows
\* the last one.  fetch_ppi: site 2 is PPIFES, site 3 the WPSFD4131 fallback.
Sites_m2          == <<Bare, Guarded, Guarded, Guarded, Guarded>>
Sites_fed_bsMutant == <<Guarded>>
Sites_fed_bs      == <<Bare>>
Sites_yield_curve == [i \in 1..11 |-> Guarded]
Sites_nfci        == <<Bare>>
Sites_five        == [i \in 1..5 |-> Guarded]
Sites_cpi         == <<Bare, Bare>>
Sites_ppi         == <<Bare, Guarded, Bare>>
Sites_components  == [i \in 1..7 |-> Guarded]
Sites_inflation   == <<Bare>>

Sites(t) ==
    CASE t = "Global M2"              -> Sites_m2
      [] t = "Fed Balance Sheet"      -> Sites_fed_bs
      [] t = "Yield Curve"            -> Sites_yield_curve
      [] t = "NFCI"                   -> Sites_nfci
      [] t \in {"Interest Rates", "Debt/GDP", "PMI", "Unemployment"} -> Sites_five
      [] t = "US CPI"                 -> Sites_cpi
      [] t = "US PPI"                 -> Sites_ppi
      [] t = "CPI Components"         -> Sites_components
      [] t = "Inflation Expectations" -> Sites_inflation

\* What fred_fetch can do at a call site: return data, or raise (requests'
\* errors, raise_for_status, a malformed body).  At the PPIFES site the job
\* itself raises ValueError when fewer than 24 values came back ("short").
FetchOutcomes(t, s) ==
    IF t = "US PPI" /\ s = 2 THEN {"ok", "short", "raise"} ELSE {"ok", "raise"}

\* The call site that follows site s of task t after the given outcome
\* (Len(Sites(t)) + 1 is the save_json call).
NextSite(t, s, outcome) ==
    IF t = "US PPI" /\ s = 2 /\ outcome = "ok" THEN 4 ELSE s + 1

PrevRun == [by |-> "previous run", complete |-> TRUE]

\* if not FRED_KEY
KeyMissingMutant(k) == FALSE
KeyMissing(k) == k = ""

\* main's "except Exception as e: print(...)" around func(): the loop goes on.
OnTaskExceptionMutant == "raised"
OnTaskException == "tasks"

InitMain ==
    /\ FRED_KEY \in {"", "key"}
    /\ pc = "start"
    /\ ti = 1
    /\ site = 0
    /\ comp_yoy = FALSE
    /\ last_fetch = "none"
    /\ started = <<>>
    /\ failed = {}
    /\ calls = [t \in TaskNames |-> <<>>]
    /\ files = [f \in FileNames |-> PrevRun]

IdleMain ==
    /\ FRED_KEY = ""
    /\ pc = "idle"
    /\ ti = 1
    /\ site = 0
    /\ comp_yoy = FALSE
    /\ last_fetch = "none"
    /\ started = <<>>
    /\ failed = {}
    /\ calls = <<>>
    /\ files = <<>>

otherVars == <<yoyVars, alignVars, yieldVars, cpiVars, curveVars, inflVars>>

\* main, up to the task loop: the credential check and its early return.
main ==
    /\ pc = "start"
    /\ pc' = IF KeyMissing(FRED_KEY) THEN "returned" ELSE "tasks"
    /\ UNCHANGED <<FRED_KEY, ti, site, comp_yoy, last_fetch, started, failed, calls, files>>
    /\ UNCHANGED otherVars

\* for name, func in tasks: try: func()
TaskCall ==
    /\ pc = "tasks"
    /\ ti <= Len(tasks)
    /\ started' = Append(started, tasks[ti])
    /\ pc' = "job"
    /\ site' = 1
    /\ comp_yoy' = FALSE
    /\ last_fetch' = "none"
    /\ UNCHANGED <<FRED_KEY, ti, failed, calls, files>>
    /\ UNCHANGED otherVars

\* func() returned normally: next task.
TaskReturns ==
    /\ pc' = "tasks"
    /\ ti' = ti + 1
    /\ site' = 0
    /\ UNCHANGED failed

\* func() raised: main's handler prints "failed".
TaskRaises ==
    /\ pc' = OnTaskException
    /\ ti' = ti + 1
    /\ site' = 0
    /\ failed' = failed \cup {tasks[ti]}

\* One fred_fetch call of the running job.
JobFetch ==
    /\ pc = "job"
    /\ site <= Len(Sites(tasks[ti]))
    /\ LET t == tasks[ti] IN
       /\ calls' = [calls EXCEPT ![t] = Append(@, "fred_fetch")]
       /\ \E outcome \in FetchOutcomes(t, site) :
            /\ last_fetch' = outcome
            /\ IF outcome # "ok" /\ ~Sites(t)[site].handler
               THEN /\ TaskRaises
                    /\ UNCHANGED comp_yoy
               ELSE /\ site' = NextSite(t, site, outcome)
                    /\ comp_yoy' = (comp_yoy \/ (t = "CPI Components" /\ outcome = "ok"))
                    /\ UNCHANGED <<pc, ti, failed>>
    /\ UNCHANGED <<FRED_KEY, started, files>>
    /\ UNCHANGED otherVars

\* fetch_cpi_components: "if not comp_yoy: ... return", before save_json.
JobNoData ==
    /\ pc = "job"
    /\ site > Len(Sites(tasks[ti]))
    /\ tasks[ti] = "CPI Components"
    /\ ~comp_yoy
    /\ TaskReturns
    /\ UNCHANGED <<FRED_KEY, comp_yoy, last_fetch, started, calls, files>>
    /\ UNCHANGED otherVars

\* save_json(filename, data): open(path, "w") and json.dump; an I/O error
\* leaves whatever was written so far and is raised to main.
save_json(t, f) ==
    /\ calls' = [calls EXCEPT ![t] = Append(@, "save_json")]
    /\ \/ /\ files' = [files EXCEPT ![f] = [by |-> t, complete |-> TRUE]]
          /\ TaskReturns
       \/ /\ files' = [files EXCEPT ![f] = [by |-> t, complete |-> FALSE]]
          /\ TaskRaises

\* The save_json call that ends the running job.
JobSave ==
    /\ pc = "job"
    /\ site > Len(Sites(tasks[ti]))
    /\ tasks[ti] = "CPI Components" => comp_yoy
    /\ save_json(tasks[ti], FileOf(tasks[ti]))
    /\ UNCHANGED <<FRED_KEY, comp_yoy, last_fetch, started>>
    /\ UNCHANGED otherVars

\* The task loop is over: the completion message.
MainDone ==
    /\ pc = "tasks"
    /\ ti > Len(tasks)
    /\ pc' = "done"
    /\ UNCHANGED <<FRED_KEY, ti, site, comp_yoy, last_fetch, started, failed, calls, files>>
    /\ UNCHANGED otherVars

IdleYoY ==
    /\ ypc = "idle"
    /\ dates = <<>>
    /\ values = <<>>
    /\ yoy_dates = <<>>
    /\ yoy_values = <<>>

IdleAlign ==
    /\ apc = "idle"
    /\ ajob = "none"
    /\ ci = 1
    /\ fetched = <<>>
    /\ series_data = <<>>
    /\ all_dates = {}
    /\ countries_info = <<>>
    /\ adoc = <<>>

IdleYield ==
    /\ spc = "idle"
    /\ rate_map = <<>>
    /\ spreads = <<>>

IdleCpi ==
    /\ cpc = "idle"
    /\ h_in = <<>>
    /\ c_in = <<>>
    /\ cpi_doc = <<>>

IdleCurve ==
    /\ kpc = "idle"
    /\ mi = 1
    /\ curve_in = <<>>
    /\ mat_labels = <<>>
    /\ current_rates = <<>>
    /\ one_year_ago_rates = <<>>
    /\ one_month_ago_rates = <<>>
    /\ curve_doc = <<>>

IdleInfl ==
    /\ ipc = "idle"
    /\ ijob = "none"
    /\ isite = 1
    /\ series_in = <<>>
    /\ idoc = <<>>

-----------------------------------------------------------------------------
(* The run of main *)

Init ==
    /\ InitMain
    /\ IdleYoY /\ IdleAlign /\ IdleYield /\ IdleCpi /\ IdleCurve /\ IdleInfl

Next ==
    \/ main
    \/ TaskCall
    \/ JobFetch
    \/ JobNoData
    \/ JobSave
    \/ MainDone

Spec == Init /\ [][Next]_vars

\* A measure every step of main increases: main cannot loop.
Progress ==
    (CASE pc = "start" -> 0
       [] pc \in {"tasks", "job"} -> 1
       [] OTHER -> 2) * 1000 + ti * 20 + site

\* C1: with the credential present, main calls the twelve jobs once each in
\* the listed order whatever subset of them raises: the jobs called so far
\* are always a prefix of tasks, a raising job is recorded as failed and the
\* next one is called, no exception leaves main, main is never stuck before
\* its completion message, every step makes progress, and at the completion
\* message all twelve have been called.
C1_EveryTaskAttempted ==
    /\ [](FRED_KEY # "" =>
            /\ pc \in {"start", "tasks", "job", "done"}
            /\ Len(started) <= Len(tasks)
            /\ started = SubSeq(tasks, 1, Len(started))
            /\ pc = "tasks" => Len(started) = ti - 1
            /\ pc = "job" => Len(started) = ti
            /\ failed \subseteq Range(started)
            /\ pc = "done" => started = tasks
            /\ pc # "done" => ENABLED Next)
    /\ [][FRED_KEY # "" => Progress' > Progress]_vars

\* C1 witness: main reached its completion message although the first job
\* and the job before the last one raised, and the last job wrote its file.
C1_Witness ==
    /\ pc = "done"
    /\ {"Global M2", "CPI Components"} \subseteq failed
    /\ "Inflation Expectations" \notin failed
    /\ files["inflation_expectations.json"].by = "Inflation Expectations"

\* C2: with the credential absent or empty, main returns before any job:
\* no func() is called, no fred_fetch or save_json call is made and every
\* file stays as the previous run wrote it.
C2_NoKeyNoWork ==
    FRED_KEY = "" =>
        /\ pc \in {"start", "returned"}
        /\ started = <<>>
        /\ \A t \in TaskNames : calls[t] = <<>>
        /\ \A f \in FileNames : files[f] = PrevRun

\* C2 witness: main has returned early for the missing credential.
C2_Witness == FRED_KEY = "" /\ pc = "returned"

\* The fred_fetch calls that the jobs make outside any per-series handler,
\* as (task, call site): the US M2 fetch, WALCL, NFCI, both CPI fetches, the
\* headline PPI fetch and T5YIE.
OutsideHandler ==
    { <<"Global M2", 1>>, <<"Fed Balance Sheet", 1>>, <<"NFCI", 1>>,
      <<"US CPI", 1>>, <<"US CPI", 2>>, <<"US PPI", 1>>,
      <<"Inflation Expectations", 1>> }

\* C10: a job calls save_json at most once, as its last call (after every
\* fred_fetch call it makes); a file is only ever written by its own job;
\* a job that has not called save_json leaves its file as the previous run
\* wrote it; and a fred_fetch that raises outside a per-series handler ends
\* the job there, with no file changed.
C10_SaveOnceAfterFetches ==
    /\ [](\A t \in TaskNames :
            /\ \A i \in 1..Len(calls[t]) :
                  calls[t][i] = "save_json" => i = Len(calls[t])
            /\ files[FileOf(t)] \in {PrevRun} \cup [by : {t}, complete : BOOLEAN]
            /\ "save_json" \notin Range(calls[t]) => files[FileOf(t)] = PrevRun)
    /\ [][(/\ pc = "job"
           /\ <<tasks[ti], site>> \in OutsideHandler
           /\ calls'[tasks[ti]] = Append(calls[tasks[ti]], "fred_fetch")
           /\ last_fetch' = "raise")
          => (/\ pc' = "tasks"
              /\ ti' = ti + 1
              /\ tasks[ti] \in failed'
              /\ files' = files)]_vars

\* C10 witness: the Fed balance sheet job's only fetch raised, so its file is
\* the previous run's, while the next job fetched and then saved its own file.
C10_Witness ==
    /\ pc = "done"
    /\ calls["Fed Balance Sheet"] = <<"fred_fetch">>
    /\ files["fed_balance_sheet.json"] = PrevRun
    /\ calls["NFCI"] = <<"fred_fetch", "save_json">>
    /\ files["nfci.json"] = [by |-> "NFCI", complete |-> TRUE]

-----------------------------------------------------------------------------
(* calc_yoy_from_index *)

\* The calendar of datetime: a date YYYYMMDD is valid when its day exists.
IsLeap(y) == (y % 4 = 0 /\ y % 100 # 0) \/ y % 400 = 0

DaysInMonth(y, m) ==
    IF m = 2 THEN (IF IsLeap(y) THEN 29 ELSE 28)
    ELSE IF m \in {4, 6, 9, 11} THEN 30 ELSE 31

YearOf(d)  == d \div 10000
MonthOf(d) == (d \div 100) % 100
DayOf(d)   == d % 100

MakeDate(y, m, dd) == y * 10000 + m * 100 + dd

ValidDate(d) ==
    /\ YearOf(d) >= 1
    /\ MonthOf(d) \in 1..12
    /\ DayOf(d) \in 1..DaysInMonth(YearOf(d), MonthOf(d))

\* dt.replace(year=dt.year - 1) raises ValueError when the date does not
\* exist in the earlier year (29 February) or the year leaves datetime's range.
ReplaceYearRaises(d) == ~ValidDate(MakeDate(YearOf(d) - 1, MonthOf(d), DayOf(d)))

\* prev_dt.strftime("%Y-%m-%d")
prev_key(d) == MakeDate(YearOf(d) - 1, MonthOf(d), DayOf(d))

\* if prev_val != 0
GuardMutant(prev_val) == prev_val > 0
Guard(prev_val) == prev_val # 0

\* round(((v - prev_val) / prev_val) * 100, 1), in thousandths of a percent.
yoy_pct(v, prev_val) == RoundDiv((v - prev_val) * 1000, prev_val) * 100

\* d[:7]
month_label(d) == d \div 100

\* The loop of calc_yoy_from_index from index i on, yd and yv being
\* yoy_dates and yoy_values so far.  The result is what the call does:
\* it raises, or it returns (yoy_dates, yoy_values).
RECURSIVE yoy_loop(_, _, _, _, _)
yoy_loop(ds, vs, i, yd, yv) ==
    IF i > Len(ds) THEN [raised |-> FALSE, yoy_dates |-> yd, yoy_values |-> yv]
    ELSE IF ReplaceYearRaises(ds[i])
         THEN [raised |-> TRUE, yoy_dates |-> <<>>, yoy_values |-> <<>>]
    ELSE LET date_val == dict_zip(ds, vs)
             pk == prev_key(ds[i])
         IN  IF pk \in DOMAIN date_val /\ Guard(date_val[pk])
             THEN yoy_loop(ds, vs, i + 1,
                           Append(yd, month_label(ds[i])),
                           Append(yv, yoy_pct(vs[i], date_val[pk])))
             ELSE yoy_loop(ds, vs, i + 1, yd, yv)

calc_yoy_from_index(ds, vs) == yoy_loop(ds, vs, 1, <<>>, <<>>)

\* Bounds of the inputs tried.
MaxLen == 3
YoYYears  == {2019, 2020, 2021}
YoYMonths == {1, 2}
YoYDays   == {1, 29}
YoYValues == {-100, 0, 100, 110}

YoYDateSet ==
    {d \in {MakeDate(y, m, dd) : y \in YoYYears, m \in YoYMonths, dd \in YoYDays} :
        ValidDate(d)}

\* Strictly ascending sequences over S of length n.
RECURSIVE AscSeqs(_, _)
AscSeqs(S, n) ==
    IF n = 0 THEN {<<>>}
    ELSE {Append(q, x) : q \in AscSeqs(S, n - 1), x \in S} \cap
         {q \in [1..n -> S] : \A i \in 1..(n - 1) : q[i] < q[i + 1]}

InitYoY ==
    /\ IdleMain /\ IdleAlign /\ IdleYield /\ IdleCpi /\ IdleCurve /\ IdleInfl
    /\ ypc = "input"
    /\ \E n \in 0..MaxLen :
         /\ dates \in AscSeqs(YoYDateSet, n)
         /\ values \in [1..n -> YoYValues]
    /\ yoy_dates = <<>>
    /\ yoy_values = <<>>

\* One call calc_yoy_from_index(dates, values).
CallYoY ==
    /\ ypc = "input"
    /\ LET r == calc_yoy_from_index(dates, values) IN
       /\ ypc' = IF r.raised THEN "raised" ELSE "returned"
       /\ yoy_dates' = r.yoy_dates
       /\ yoy_values' = r.yoy_values
    /\ UNCHANGED <<dates, values>>
    /\ UNCHANGED <<mainVars, alignVars, yieldVars, cpiVars, curveVars, inflVars>>

NextYoY == CallYoY

SpecYoY == InitYoY /\ [][NextYoY]_vars

\* The index of the input observation dated one year before dates[i], same
\* month and same day (0 when the input has none), and its value.
EarlierIndex(i) ==
    LET J == {j \in 1..Len(dates) :
                /\ YearOf(dates[j]) = YearOf(dates[i]) - 1
                /\ MonthOf(dates[j]) = MonthOf(dates[i])
                /\ DayOf(dates[j]) = DayOf(dates[i])}
    IN  IF J = {} THEN 0 ELSE CHOOSE j \in J : TRUE

EarlierValue(i) == values[EarlierIndex(i)]

\* 100 * (v - p) / p rounded to one decimal, in thousandths of a percent.
PctOneDecimal(v, p) == RoundDiv(100 * (v - p) * 10, p) * 100

\* The indices that have a one-year-earlier observation.
Matched == {i \in 1..Len(dates) : EarlierIndex(i) # 0}

\* The pairs (month label, percentage) of the indices in K, in input order.
PairsOf(K) ==
    LET kept == sorted(K)
    IN  [k \in 1..Len(kept) |->
            <<YearOf(dates[kept[k]]) * 100 + MonthOf(dates[kept[k]]),
              PctOneDecimal(values[kept[k]], EarlierValue(kept[k]))>>]

\* The pairs the call emitted to its caller (none when it raised).
Emitted == [k \in 1..Len(yoy_dates) |-> <<yoy_dates[k], yoy_values[k]>>]

\* C4: for every ascending input the pairs emitted are exactly those of the
\* indices whose one-year-earlier date (same month and day) is in the input
\* with a value passing the guard, in input order, labelled by year-month,
\* with the percentage against that earlier value rounded to one decimal;
\* the output is never longer than the input.
C4_PairsExactlyForExactMatches ==
    ypc # "input" =>
        /\ Emitted = PairsOf({i \in Matched : EarlierValue(i) # 0})
        /\ Len(yoy_dates) <= Len(dates)

\* C5: the derivation has no failure outcome: the call never raises.
C5_NeverRaises == ypc # "raised"

\* C6 as claimed: an index whose one-year-earlier value is zero or negative
\* is skipped, so the pairs emitted are those of the indices with a strictly
\* positive earlier value.
C6_SkipsZeroOrNegative ==
    ypc = "returned" =>
        LET claimed == PairsOf({i \in Matched : EarlierValue(i) > 0})
        IN  yoy_values = [k \in 1..Len(claimed) |-> claimed[k][2]]

\* C6 amended: an index whose one-year-earlier value is zero is skipped and
\* no other matched index is: the percentages emitted by a call that returns
\* are those of the indices with a non-zero earlier value, negative ones
\* included; a call that raises emits none.
C6_SkipsZeroOnly ==
    /\ ypc = "returned" =>
        /\ Len(yoy_values) = Cardinality({j \in Matched : EarlierValue(j) # 0})
        /\ \A k \in 1..Len(yoy_values) :
              \E j \in Matched :
                  /\ EarlierValue(j) # 0
                  /\ yoy_values[k] = PctOneDecimal(values[j], EarlierValue(j))
    /\ ypc = "raised" => yoy_values = <<>>

\* C6 witness: a call returned having skipped an index whose earlier value
\* is zero and emitted one whose earlier value is negative.
C6_Witness ==
    /\ ypc = "returned"
    /\ \E i \in Matched : EarlierValue(i) = 0
    /\ \E i \in Matched : EarlierValue(i) < 0
    /\ Len(yoy_values) = 1

-----------------------------------------------------------------------------
(* The five-country jobs: fetch_rates, fetch_debt_gdp, fetch_pmi,           *)
(* fetch_unemployment                                                       *)

FiveJobs == {"rates", "debt_gdp", "pmi", "unemployment"}

\* The keys of rate_series, debt_series, pmi_series, unemp_series, in order.
Countries(job) ==
    IF job \in {"rates", "unemployment"}
    THEN <<"us", "kr", "eu", "jp", "cn">>
    ELSE <<"us", "jp", "eu", "kr", "cn">>

\* max(30, min(65, x)) in thousandths
clamp(x) == IF x < 30000 THEN 30000 ELSE IF x > 65000 THEN 65000 ELSE x

\* What the loop does to a fetched value before it goes into series_data:
\* pmi_vals, vals (unemployment); rates and debt/GDP keep the raw value.
loop_value(job, x) ==
    CASE job = "pmi"          -> round(clamp((x - 100000) * 5 + 50000), 1)
      [] job = "unemployment" -> round(x, 1)
      [] OTHER                -> x

\* What the alignment does to a value of series_data when it takes it.
align_value(job, x) ==
    CASE job = "rates"    -> round(x, 2)
      [] job = "debt_gdp" -> round(x, 0)
      [] OTHER            -> x

\* last_val before the first observation.
last_val_initMutant(job) == 0
last_val_init(job) == IF job = "pmi" THEN 50000 ELSE 0

\* The date keys of series_data: dt[:4] in debt/GDP, the date elsewhere.
date_key(job, d) == IF job = "debt_gdp" THEN d \div 10000 ELSE d

\* countries_info[key] from the fetched values v.
info(job, v) ==
    LET vals    == [i \in 1..Len(v) |-> loop_value(job, v[i])]
        current == IF Len(vals) > 0 THEN Last(vals)
                   ELSE IF job = "pmi" THEN 50000 ELSE 0
        prev    == IF Len(vals) >= 2 THEN vals[Len(vals) - 1] ELSE current
    IN  CASE job = "rates" ->
               [current |-> round(current, 2), prev_change |-> round(current - prev, 2)]
          [] job = "debt_gdp" ->
               [current |-> IF Len(v) > 0 THEN round(Last(v), 0) ELSE 0]
          [] OTHER ->
               [current |-> current, prev_change |-> round(current - prev, 1)]

\* The except branch of the loop: what becomes of series_data.
series_after_raiseMutant(sd, key) ==
    [k \in DOMAIN sd \cup {key} |-> IF k = key THEN <<>> ELSE sd[k]]
series_after_raise(sd, key) == sd

\* The forward fill of one series m over sorted_dates from position i on.
RECURSIVE fill(_, _, _, _, _)
fill(job, m, sorted_dates, i, last_val) ==
    IF i > Len(sorted_dates) THEN <<>>
    ELSE LET lv == IF sorted_dates[i] \in DOMAIN m
                   THEN align_value(job, m[sorted_dates[i]])
                   ELSE last_val
         IN  <<lv>> \o fill(job, m, sorted_dates, i + 1, lv)

aligned(job, sd, sorted_dates) ==
    [key \in DOMAIN sd |-> fill(job, sd[key], sorted_dates, 1, last_val_init(job))]

\* Bounds of the fetch results tried: the dates fred_fetch can return (monthly
\* for freq="m", yearly for freq="a"), the raw values in thousandths, and
\* how many observations one run of a job gets in all.
MaxObs == 3
MonthlyDates == {20240101, 20240201, 20240301}
AnnualDates  == {20220101, 20230101, 20240101}
RawValues    == {1254, 100036}

FetchDates(job) == IF job = "debt_gdp" THEN AnnualDates ELSE MonthlyDates

\* The (d, v) a fred_fetch call of the job can return with n observations:
\* ascending dates without duplicates, one value each.
MonthlyResults ==
    [n \in 0..Cardinality(MonthlyDates) |->
        AscSeqs(MonthlyDates, n) \X [1..n -> RawValues]]
AnnualResults ==
    [n \in 0..Cardinality(AnnualDates) |->
        AscSeqs(AnnualDates, n) \X [1..n -> RawValues]]
FetchResults(job, n) ==
    IF n > Cardinality(FetchDates(job)) THEN {}
    ELSE IF job = "debt_gdp" THEN AnnualResults[n] ELSE MonthlyResults[n]

Pending == [status |-> "pending", d |-> <<>>, v |-> <<>>]
Raised  == [status |-> "raised", d |-> <<>>, v |-> <<>>]

RECURSIVE SumLen(_, _)
SumLen(f, S) ==
    IF S = {} THEN 0
    ELSE LET k == CHOOSE x \in S : TRUE IN Len(f[k].d) + SumLen(f, S \ {k})

ObsCount == SumLen(fetched, DOMAIN fetched)

InitAlign ==
    /\ IdleMain /\ IdleYoY /\ IdleYield /\ IdleCpi /\ IdleCurve /\ IdleInfl
    /\ apc = "loop"
    /\ ajob \in FiveJobs
    /\ ci = 1
    /\ fetched = [k \in Range(Countries(ajob)) |-> Pending]
    /\ series_data = <<>>
    /\ all_dates = {}
    /\ countries_info = <<>>
    /\ adoc = <<>>

\* One iteration of "for key, (...) in ..._series.items(): try: ... except".
CountryFetch ==
    /\ apc = "loop"
    /\ ci <= Len(Countries(ajob))
    /\ LET key == Countries(ajob)[ci] IN
       \/ \* fred_fetch raises: the handler prints and the loop goes on
          /\ fetched' = [fetched EXCEPT ![key] = Raised]
          /\ series_data' = series_after_raise(series_data, key)
          /\ UNCHANGED <<all_dates, countries_info>>
       \/ \* fred_fetch returns (d, v)
          \E n \in 0..(MaxObs - ObsCount) :
          \E dv \in FetchResults(ajob, n) :
             LET d    == dv[1]
                 v    == dv[2]
                 keys == [i \in 1..n |-> date_key(ajob, d[i])]
                 vals == [i \in 1..n |-> loop_value(ajob, v[i])]
             IN  /\ fetched' = [fetched EXCEPT ![key] = [status |-> "ok", d |-> d, v |-> v]]
                 /\ series_data' =
                       [k \in DOMAIN series_data \cup {key} |->
                           IF k = key THEN dict_zip(keys, vals) ELSE series_data[k]]
                 /\ all_dates' = all_dates \cup Range(keys)
                 /\ countries_info' =
                       [k \in DOMAIN countries_info \cup {key} |->
                           IF k = key THEN info(ajob, v) ELSE countries_info[k]]
    /\ ci' = ci + 1
    /\ UNCHANGED <<apc, ajob, adoc>>
    /\ UNCHANGED <<mainVars, yoyVars, yieldVars, cpiVars, curveVars, inflVars>>

\* After the loop: sorted_dates, aligned_series and the save_json call.
AlignAndSave ==
    /\ apc = "loop"
    /\ ci > Len(Countries(ajob))
    /\ LET sorted_dates == sorted(all_dates) IN
       adoc' = [countries |-> countries_info,
                dates     |-> sorted_dates,
                series    |-> aligned(ajob, series_data, sorted_dates)]
    /\ apc' = "saved"
    /\ UNCHANGED <<ajob, ci, fetched, series_data, all_dates, countries_info>>
    /\ UNCHANGED <<mainVars, yoyVars, yieldVars, cpiVars, curveVars, inflVars>>

NextAlign ==
    \/ CountryFetch
    \/ AlignAndSave

SpecAlign == InitAlign /\ [][NextAlign]_vars

\* The countries whose fetch succeeded.
Succeeded == {k \in DOMAIN fetched : fetched[k].status = "ok"}

\* The value the job emits for a fetched value (its rounding and scaling).
EmittedValue(x) == align_value(ajob, loop_value(ajob, x))

\* The date-axis key of a fetched date.
AxisKey(d) == IF ajob = "debt_gdp" THEN YearOf(d) ELSE d

\* The forward-filled value of country k at axis date a: its observation at
\* the latest date <= a, or the job's default when it has none.
CarriedValue(k, a) ==
    LET d == fetched[k].d
        before == {i \in 1..Len(d) : AxisKey(d[i]) <= a}
    IN  IF before = {}
        THEN (IF ajob = "pmi" THEN 50000 ELSE 0)
        ELSE LET latest == CHOOSE i \in before : \A j \in before : d[j] <= d[i]
             IN  EmittedValue(fetched[k].v[latest])

\* The array of country k follows the axis of the document.
AlignedToAxis(k) ==
    /\ k \in DOMAIN adoc.series
    /\ Len(adoc.series[k]) = Len(adoc.dates)
    /\ \A i \in 1..Len(adoc.dates) : adoc.series[k][i] = CarriedValue(k, adoc.dates[i])

C7_FailedCountriesLeftOut ==
    /\ apc \in {"loop", "saved"}
    /\ apc = "saved" =>
        /\ DOMAIN adoc.countries = Succeeded
        /\ DOMAIN adoc.series = Succeeded
        /\ \A i \in 1..Len(adoc.dates) :
              \E k \in Succeeded : adoc.dates[i] \in {AxisKey(x) : x \in Range(fetched[k].d)}
        /\ \A k \in Succeeded :
              /\ \A x \in Range(fetched[k].d) : AxisKey(x) \in Range(adoc.dates)
              /\ AlignedToAxis(k)

\* C7 witness: a document written after exactly one of the five fetches
\* failed, holding the other four countries, two of them with observations.
C7_Witness ==
    /\ apc = "saved"
    /\ Cardinality(Succeeded) = 4
    /\ Cardinality({k \in Succeeded : fetched[k].d # <<>>}) >= 2
    /\ Cardinality(DOMAIN adoc.series) = 4

-----------------------------------------------------------------------------
(* fetch_yield_curve: the spreads and their status *)

\* rate_map.get(label, 0)
rate_get(m, label) == IF label \in DOMAIN m THEN m[label] ELSE 0

\* spread_status(s), s in thousandths of a percentage point.
spread_statusMutant(s) ==
    IF s <= -100 THEN "INVERTED"
    ELSE IF s <= 100 THEN "FLAT"
    ELSE "NORMAL"
spread_status(s) ==
    IF s < -100 THEN "INVERTED"
    ELSE IF s < 100 THEN "FLAT"
    ELSE "NORMAL"

\* The "spreads" object of yield_curve.json.
spreads_of(m) ==
    LET spread_2s10s == round(rate_get(m, "10Y") - rate_get(m, "2Y"), 2)
        spread_3m10y == round(rate_get(m, "10Y") - rate_get(m, "3M"), 2)
    IN  [s2s10s        |-> spread_2s10s,
         s3m10y        |-> spread_3m10y,
         s2s10s_status |-> spread_status(spread_2s10s),
         s3m10y_status |-> spread_status(spread_3m10y)]

\* Bounds: the current rates tried for the three maturities the spreads
\* read, in thousandths; a label is absent when its fetch failed or was empty.
SpreadLabels == {"3M", "2Y", "10Y"}
Rates == {3500, 3900, 3950, 4000, 4100, 4104, 4150}

InitYield ==
    /\ IdleMain /\ IdleYoY /\ IdleAlign /\ IdleCpi /\ IdleCurve /\ IdleInfl
    /\ spc = "fetch"
    /\ \E L \in SUBSET SpreadLabels : rate_map \in [L -> Rates]
    /\ spreads = <<>>

\* rate_map = dict(zip(mat_labels, current_rates)), the spreads, save_json.
SaveYieldCurve ==
    /\ spc = "fetch"
    /\ spreads' = spreads_of(rate_map)
    /\ spc' = "saved"
    /\ UNCHANGED rate_map
    /\ UNCHANGED <<mainVars, yoyVars, alignVars, cpiVars, curveVars, inflVars>>

NextYield == SaveYieldCurve

SpecYield == InitYield /\ [][NextYield]_vars

\* The band the claim gives a spread s (thousandths): below -0.1, from -0.1
\* to below 0.1, from 0.1 up.
InBand(s, status) ==
    /\ s < -100 => status = "INVERTED"
    /\ (-100 <= s /\ s < 100) => status = "FLAT"
    /\ s >= 100 => status = "NORMAL"
    /\ s = -150 => status = "INVERTED"
    /\ s = 50 => status = "FLAT"
    /\ s = 500 => status = "NORMAL"
    /\ s = -100 => status = "FLAT"
    /\ s = 100 => status = "NORMAL"

\* C8: each spread of the document has one of exactly three statuses, the
\* one of its band: s < -0.1 INVERTED, -0.1 <= s < 0.1 FLAT, s >= 0.1
\* NORMAL; so -0.15 is INVERTED, 0.05 FLAT, 0.5 NORMAL, and the boundaries
\* -0.1 and 0.1 are FLAT and NORMAL.
C8_SpreadStatusBands ==
    spc = "saved" =>
        /\ {spreads.s2s10s_status, spreads.s3m10y_status}
              \subseteq {"INVERTED", "FLAT", "NORMAL"}
        /\ InBand(spreads.s2s10s, spreads.s2s10s_status)
        /\ InBand(spreads.s3m10y, spreads.s3m10y_status)

\* C8 witness: a document whose 2s10s spread is the boundary -0.1, FLAT, and
\* whose 3m10y spread is the boundary 0.1, NORMAL.
C8_Witness ==
    /\ spc = "saved"
    /\ spreads.s2s10s = -100 /\ spreads.s2s10s_status = "FLAT"
    /\ spreads.s3m10y = 100 /\ spreads.s3m10y_status = "NORMAL"

-----------------------------------------------------------------------------
(* fetch_cpi *)

\* None and a number, as the values of one name.
None == <<>>
Some(x) == <<x>>

\* x[-1] if x else None
last_or_none(x) == IF Len(x) > 0 THEN Some(Last(x)) ELSE None

\* x[-2] if len(x) >= 2 else cur
prev_or(x, cur) == IF Len(x) >= 2 THEN Some(x[Len(x) - 1]) ELSE cur

\* Python's truth value of None or a float: None and 0.0 are false.
truthy(o) == o # None /\ o[1] # 0

\* round(cur - prev, 1) if cur and prev else 0
prev_change(cur, prev) ==
    IF truthy(cur) /\ truthy(prev) THEN round(cur[1] - prev[1], 1) ELSE 0

\* The document fetch_cpi builds from the two fetched series, each a
\* (dates, values) pair; "raised" when calc_yoy_from_index raises.
cpi_document(h, c) ==
    LET hy == calc_yoy_from_index(h[1], h[2])
        cy == calc_yoy_from_index(c[1], c[2])
    IN  IF hy.raised \/ cy.raised THEN [raised |-> TRUE]
        ELSE
        LET h_map == dict_zip(hy.yoy_dates, hy.yoy_values)
            c_map == dict_zip(cy.yoy_dates, cy.yoy_values)
            common_dates == sorted(Range(hy.yoy_dates) \cap Range(cy.yoy_dates))
            headline_series == [i \in 1..Len(common_dates) |-> h_map[common_dates[i]]]
            core_series == [i \in 1..Len(common_dates) |-> c_map[common_dates[i]]]
            h_current == last_or_none(headline_series)
            c_current == last_or_none(core_series)
            h_prev == prev_or(headline_series, h_current)
            c_prev == prev_or(core_series, c_current)
        IN  [raised      |-> FALSE,
             latest_date |-> last_or_none(common_dates),
             headline    |-> [current |-> h_current,
                              prev_change |-> prev_change(h_current, h_prev)],
             core        |-> [current |-> c_current,
                              prev_change |-> prev_change(c_current, c_prev)],
             dates       |-> common_dates,
             series      |-> [headline |-> headline_series, core |-> core_series]]

\* Bounds: what fred_fetch(..., freq="m") returns for the two CPI series:
\* up to MaxLen first-of-month observations, index values in thousandths.
CpiDates  == {20190101, 20190201, 20200101, 20200201, 20210101, 20210201}
CpiValues == {100000, 110000}

CpiResults ==
    UNION {AscSeqs(CpiDates, n) \X [1..n -> CpiValues] : n \in 0..MaxLen}

InitCpi ==
    /\ IdleMain /\ IdleYoY /\ IdleAlign /\ IdleYield /\ IdleCurve /\ IdleInfl
    /\ cpc = "fetch"
    /\ h_in \in CpiResults
    /\ c_in \in CpiResults
    /\ cpi_doc = <<>>

\* fetch_cpi after its two fetches returned: the document and save_json.
SaveCpi ==
    /\ cpc = "fetch"
    /\ LET doc == cpi_document(h_in, c_in) IN
       /\ cpc' = IF doc.raised THEN "raised" ELSE "saved"
       /\ cpi_doc' = doc
    /\ UNCHANGED <<h_in, c_in>>
    /\ UNCHANGED <<mainVars, yoyVars, alignVars, yieldVars, curveVars, inflVars>>

NextCpi == SaveCpi

SpecCpi == InitCpi /\ [][NextCpi]_vars

\* C9: in the CPI document, for the headline and the core series alike,
\* current is the last element of the emitted series, prev_change is
\* current minus the second-to-last element when the series has at least
\* two points (zero values included) and 0 when it has fewer.
C9_PrevChangeIsLastMinusPrevious ==
    cpc = "saved" =>
        \A name \in {"headline", "core"} :
            LET sr  == cpi_doc.series[name]
                sum == cpi_doc[name]
            IN  /\ Len(sr) >= 1 => sum.current = Some(Last(sr))
                /\ Len(sr) >= 2 => sum.prev_change = Last(sr) - sr[Len(sr) - 1]
                /\ Len(sr) < 2 => sum.prev_change = 0

-----------------------------------------------------------------------------
(* fetch_yield_curve: the loop over the maturities and the four lists *)

\* The keys of the maturities dict, in insertion order (the loop's order).
maturities ==
    << "1M", "3M", "6M", "1Y", "2Y", "3Y", "5Y", "7Y", "10Y", "20Y", "30Y" >>

\* max(0, x)
max0(x) == IF x > 0 THEN x ELSE 0

\* The 0-based positions values[max(0, len(values) - 252)] and
\* values[max(0, len(values) - 22)] read.
target_1y(vs) == max0(Len(vs) - 252)
target_1m(vs) == max0(Len(vs) - 22)

\* if values: mat_labels.append(label)
with_labelMutant(labels, label, vs) == Append(labels, label)
with_label(labels, label, vs) ==
    IF Len(vs) > 0 THEN Append(labels, label) ELSE labels

\* Bounds: what fred_fetch returns for the k-th maturity when it does not
\* raise: no value at all, or 23 daily values (thousandths), which are
\* told apart from every other maturity's and from each other.  With 23
\* values the one-year position is clamped to 0 and the one-month one is not.
CurveLens == {0, 23}
curve_values(k, n) == [i \in 1..n |-> 1000 * k + i]

CurveOutcomes ==
    {[raised |-> TRUE, n |-> 0]} \cup {[raised |-> FALSE, n |-> n] : n \in CurveLens}

InitCurve ==
    /\ IdleMain /\ IdleYoY /\ IdleAlign /\ IdleYield /\ IdleCpi /\ IdleInfl
    /\ kpc = "loop"
    /\ mi = 1
    /\ curve_in = <<>>
    /\ mat_labels = <<>>
    /\ current_rates = <<>>
    /\ one_year_ago_rates = <<>>
    /\ one_month_ago_rates = <<>>
    /\ curve_doc = <<>>

\* One iteration of the loop: the try block around fred_fetch and the
\* appends; an exception leaves the four lists as they are.
CurveFetch ==
    /\ kpc = "loop"
    /\ mi <= Len(maturities)
    /\ \E out \in CurveOutcomes :
          /\ curve_in' = Append(curve_in, out)
          /\ IF out.raised
             THEN UNCHANGED <<mat_labels, current_rates,
                              one_year_ago_rates, one_month_ago_rates>>
             ELSE LET label  == maturities[mi]
                      vs == curve_values(mi, out.n)
                  IN  /\ current_rates' =
                            IF Len(vs) > 0
                            THEN Append(current_rates, Last(vs))
                            ELSE current_rates
                      /\ mat_labels' = with_label(mat_labels, label, vs)
                      /\ one_year_ago_rates' =
                            IF Len(vs) > 0
                            THEN Append(one_year_ago_rates, vs[target_1y(vs) + 1])
                            ELSE one_year_ago_rates
                      /\ one_month_ago_rates' =
                            IF Len(vs) > 0
                            THEN Append(one_month_ago_rates, vs[target_1m(vs) + 1])
                            ELSE one_month_ago_rates
    /\ mi' = mi + 1
    /\ UNCHANGED <<kpc, curve_doc>>
    /\ UNCHANGED <<mainVars, yoyVars, alignVars, yieldVars, cpiVars, inflVars>>

\* After the loop: rate_map, the spreads and save_json("yield_curve.json").
CurveSave ==
    /\ kpc = "loop"
    /\ mi > Len(maturities)
    /\ curve_doc' =
          [current       |-> [maturities |-> mat_labels, rates |-> current_rates],
           one_month_ago |-> [rates |-> one_month_ago_rates],
           one_year_ago  |-> [rates |-> one_year_ago_rates],
           spreads       |-> spreads_of(dict_zip(mat_labels, current_rates))]
    /\ kpc' = "saved"
    /\ UNCHANGED <<mi, curve_in, mat_labels, current_rates,
                   one_year_ago_rates, one_month_ago_rates>>
    /\ UNCHANGED <<mainVars, yoyVars, alignVars, yieldVars, cpiVars, inflVars>>

NextCurve == CurveFetch \/ CurveSave

SpecCurve == InitCurve /\ [][NextCurve]_vars

\* The maturities (by position in the fixed order) whose fetch returned at
\* least one value, and the i-th of them in that order.
PresentMaturities ==
    {k \in DOMAIN curve_in : ~curve_in[k].raised /\ curve_in[k].n > 0}
PresentAt(i) ==
    CHOOSE k \in PresentMaturities :
        Cardinality({j \in PresentMaturities : j <= k}) = i

\* The vs the fetch of the k-th maturity returned.
ReturnedValues(k) == Range(curve_values(k, curve_in[k].n))

\* C11: in the yield-curve document the four lists maturities, current
\* rates, one-month-ago rates and one-year-ago rates have one length, the
\* number of maturities whose fetch returned a value; the labels are those
\* maturities in the fixed order 1M..30Y, so a maturity whose fetch failed
\* or was empty is in none of the lists; and position i of each rates list
\* is a value returned for the maturity of label i.
C11_YieldListsAligned ==
    kpc = "saved" =>
        LET n == Cardinality(PresentMaturities) IN
        /\ Len(curve_doc.current.maturities) = n
        /\ Len(curve_doc.current.rates) = n
        /\ Len(curve_doc.one_month_ago.rates) = n
        /\ Len(curve_doc.one_year_ago.rates) = n
        /\ \A i \in 1..n :
              /\ curve_doc.current.maturities[i] = maturities[PresentAt(i)]
              /\ curve_doc.current.rates[i] \in ReturnedValues(PresentAt(i))
              /\ curve_doc.one_month_ago.rates[i] \in ReturnedValues(PresentAt(i))
              /\ curve_doc.one_year_ago.rates[i] \in ReturnedValues(PresentAt(i))

\* C11 witness: a document written after the 1M fetch failed, the 3M fetch
\* returned no value and the 30Y fetch failed, with at least three
\* maturities present, so that the labels are shifted against 1M..30Y.
C11_Witness ==
    /\ kpc = "saved"
    /\ curve_in[1].raised
    /\ ~curve_in[2].raised /\ curve_in[2].n = 0
    /\ curve_in[11].raised
    /\ Len(curve_doc.current.maturities) >= 3
    /\ curve_doc.current.maturities[1] = "6M"

-----------------------------------------------------------------------------
(* fetch_cpi, fetch_ppi, fetch_cpi_components: the common date axis *)

InflJobs == {"cpi", "ppi", "components"}

\* The keys of the components dict, in insertion order.
components ==
    << "Shelter", "Energy", "Food", "Transport", "Medical", "Apparel", "Education" >>

\* The series each job asks fred_fetch for, in call order.
InflSites(job) ==
    CASE job = "cpi" -> << "CPIAUCSL", "CPILFESL" >>
      [] job = "ppi" -> << "PPIACO", "PPIFES", "WPSFD4131" >>
      [] job = "components" -> components

\* Whether the call sits inside a try block of the job.
InflGuarded(job, i) ==
    \/ job = "components"
    \/ job = "ppi" /\ i = 2

\* A fred_fetch call that raised, and one that returned (d, v).
FetchRaised == [raised |-> TRUE, d |-> <<>>, v |-> <<>>]
Returned(d, v) == [raised |-> FALSE, d |-> d, v |-> v]

\* fetch_ppi: PPIFES is kept when its fetch returned at least 24 values.
ppifes_ok(r) == ~r.raised /\ ~(Len(r.v) < 24)

\* The call after the i-th: fetch_ppi skips WPSFD4131 when PPIFES is kept.
InflNextSite(job, i, r) ==
    IF job = "ppi" /\ i = 2 /\ ppifes_ok(r) THEN i + 2 ELSE i + 1

\* fetch_ppi builds its document as fetch_cpi does.
ppi_document(h, c) == cpi_document(h, c)

\* set.intersection(*sets) of a non-empty list of sets.
intersection(sets) == {x \in UNION sets : \A S \in sets : x \in S}

\* [m[d] for d in common_dates]
series_onMutant(mp, ds) ==
    [i \in 1..Len(ds) |-> mp[ds[IF i > 1 THEN i - 1 ELSE 1]]]
series_on(mp, ds) == [i \in 1..Len(ds) |-> mp[ds[i]]]

\* round(current - prev, 1) if current is not None and prev is not None else 0
prev_change_not_none(cur, prev) ==
    IF cur # None /\ prev # None THEN round(cur[1] - prev[1], 1) ELSE 0

\* comp_yoy after the loop of fetch_cpi_components: the components whose
\* fetch and YoY derivation did not raise, each with its label -> YoY map.
RECURSIVE comp_loop(_, _, _)
comp_loop(sin, i, cy) ==
    IF i > Len(components) THEN cy
    ELSE LET name == components[i]
             yoy  == calc_yoy_from_index(sin[name].d, sin[name].v)
         IN  IF sin[name].raised \/ yoy.raised
             THEN comp_loop(sin, i + 1, cy)
             ELSE comp_loop(sin, i + 1,
                            cy @@ (name :> dict_zip(yoy.yoy_dates, yoy.yoy_values)))
comp_yoy_of(sin) == comp_loop(sin, 1, <<>>)

\* The document fetch_cpi_components builds from a non-empty comp_yoy.
components_document(cy) ==
    LET common_dates == sorted(intersection({DOMAIN cy[name] : name \in DOMAIN cy}))
        names == SelectSeq(components, LAMBDA name : name \in DOMAIN cy)
        entry(name) ==
            LET mp == cy[name]
                vals == series_on(mp, common_dates)
                current == last_or_none(vals)
                prev == prev_or(vals, current)
            IN  [name        |-> name,
                 current     |-> current,
                 prev_change |-> prev_change_not_none(current, prev),
                 series      |-> vals]
    IN  [raised      |-> FALSE,
         latest_date |-> last_or_none(common_dates),
         dates       |-> common_dates,
         components  |-> [i \in 1..Len(names) |-> entry(names[i])]]

\* Bounds: what fred_fetch(..., freq="m") returns.  For the CPI and PPI
\* series up to MaxLen first-of-month observations; for PPIFES no
\* observation or 23, 24 or 25 consecutive months from 2019-01 (the code
\* asks for 24);
\* for the seven components one of four date lists.  Index values are in
\* thousandths.
InflDates  == {20190101, 20200101, 20210101, 20210201}
InflValues == {100000, 110000}

InflResults ==
    {Returned(r[1], r[2]) :
        r \in UNION {AscSeqs(InflDates, n) \X [1..n -> InflValues] : n \in 0..MaxLen}}

PpifesLens == {0, 23, 24, 25}
month_run(n) ==
    [i \in 1..n |-> (2019 + (i - 1) \div 12) * 10000 + (((i - 1) % 12) + 1) * 100 + 1]
PpifesResults ==
    {Returned(month_run(n), [i \in 1..n |-> 100000 + 1000 * i]) : n \in PpifesLens}

ComponentDates ==
    { <<>>, <<20190101, 20200101>>, <<20200101, 20210101>>,
      <<20190101, 20200101, 20210101>> }
ComponentResults ==
    {Returned(d, [i \in 1..Len(d) |-> 100000 + 10000 * (i - 1)]) : d \in ComponentDates}

InflOutcomes(job, i) ==
    {FetchRaised} \cup
        (CASE job = "components" -> ComponentResults
           [] job = "ppi" /\ i = 2 -> PpifesResults
           [] OTHER -> InflResults)

InitInfl ==
    /\ IdleMain /\ IdleYoY /\ IdleAlign /\ IdleYield /\ IdleCpi /\ IdleCurve
    /\ ipc = "fetch"
    /\ ijob \in InflJobs
    /\ isite = 1
    /\ series_in = <<>>
    /\ idoc = <<>>

\* The job's next fred_fetch call: outside a try block an exception ends
\* the job; inside one the job goes on.
InflFetch ==
    /\ ipc = "fetch"
    /\ isite <= Len(InflSites(ijob))
    /\ \E r \in InflOutcomes(ijob, isite) :
          /\ series_in' = series_in @@ (InflSites(ijob)[isite] :> r)
          /\ IF r.raised /\ ~InflGuarded(ijob, isite)
             THEN ipc' = "raised" /\ isite' = isite
             ELSE ipc' = "fetch" /\ isite' = InflNextSite(ijob, isite, r)
    /\ UNCHANGED <<ijob, idoc>>
    /\ UNCHANGED <<mainVars, yoyVars, alignVars, yieldVars, cpiVars, curveVars>>

\* After the fetches: the YoY series, the common dates, the document and
\* save_json; fetch_cpi_components returns without a document when no
\* component is left.
InflSave ==
    /\ ipc = "fetch"
    /\ isite > Len(InflSites(ijob))
    /\ LET pair(name) == <<series_in[name].d, series_in[name].v>>
           doc == CASE ijob = "cpi" ->
                         cpi_document(pair("CPIAUCSL"), pair("CPILFESL"))
                    [] ijob = "ppi" ->
                         ppi_document(pair("PPIACO"),
                                      IF ppifes_ok(series_in["PPIFES"])
                                      THEN pair("PPIFES") ELSE pair("WPSFD4131"))
                    [] ijob = "components" ->
                         LET cy == comp_yoy_of(series_in)
                         IN  IF DOMAIN cy = {} THEN [raised |-> FALSE, nodata |-> TRUE]
                             ELSE components_document(cy)
       IN  /\ ipc' = IF doc.raised THEN "raised"
                     ELSE IF ijob = "components" /\ "nodata" \in DOMAIN doc THEN "returned"
                     ELSE "saved"
           /\ idoc' = IF doc.raised \/ "nodata" \in DOMAIN doc THEN idoc ELSE doc
    /\ UNCHANGED <<ijob, isite, series_in>>
    /\ UNCHANGED <<mainVars, yoyVars, alignVars, yieldVars, cpiVars, curveVars>>

NextInfl == InflFetch \/ InflSave

SpecInfl == InitInfl /\ [][NextInfl]_vars

\* The names of the series the saved document includes, the array the
\* document holds for each, and the fetch result each was derived from.
IncludedSeries ==
    IF ijob = "components"
    THEN {idoc.components[i].name : i \in DOMAIN idoc.components}
    ELSE {"headline", "core"}
EmittedSeries(name) ==
    IF ijob = "components"
    THEN LET i == CHOOSE i \in DOMAIN idoc.components : idoc.components[i].name = name
         IN  idoc.components[i].series
    ELSE idoc.series[name]
SourceOf(name) ==
    CASE ijob = "components" -> series_in[name]
      [] ijob = "cpi" -> series_in[IF name = "headline" THEN "CPIAUCSL" ELSE "CPILFESL"]
      [] ijob = "ppi" ->
            series_in[IF name = "headline" THEN "PPIACO"
                      ELSE IF "WPSFD4131" \in DOMAIN series_in THEN "WPSFD4131"
                      ELSE "PPIFES"]

\* The YoY series of an included series and its month labels.
OwnYoY(name) == calc_yoy_from_index(SourceOf(name).d, SourceOf(name).v)
OwnLabels(name) == Range(OwnYoY(name).yoy_dates)

\* C12: in the CPI, PPI and CPI-components documents the date axis is
\* strictly ascending and holds exactly the month labels that the YoY
\* series of every included series has (their intersection); the included
\* components are the ones whose fetch did not raise; and every emitted
\* array is as long as the axis, its value at position i being a YoY value
\* its own series has for the label dates[i].
C12_AxisIsIntersection ==
    ipc = "saved" =>
        LET own == [name \in IncludedSeries |-> OwnYoY(name)]
            labels == [name \in IncludedSeries |-> Range(own[name].yoy_dates)]
            emitted == [name \in IncludedSeries |-> EmittedSeries(name)]
        IN
        /\ \A i, j \in DOMAIN idoc.dates : i < j => idoc.dates[i] < idoc.dates[j]
        /\ \A label \in UNION {labels[name] : name \in IncludedSeries} :
              label \in Range(idoc.dates)
                  <=> \A name \in IncludedSeries : label \in labels[name]
        /\ \A label \in Range(idoc.dates) :
              \A name \in IncludedSeries : label \in labels[name]
        /\ ijob = "components" =>
              IncludedSeries = {name \in Range(components) : ~series_in[name].raised}
        /\ \A name \in IncludedSeries :
              /\ Len(emitted[name]) = Len(idoc.dates)
              /\ \A i \in DOMAIN idoc.dates :
                    \E j \in DOMAIN own[name].yoy_dates :
                        /\ own[name].yoy_dates[j] = idoc.dates[i]
                        /\ own[name].yoy_values[j] = emitted[name][i]

\* C12 witness: a components document of three or more components, one
\* component left out, whose axis holds one label while some included
\* component has a second label the axis does not have, and two included
\* components differ in their value on the axis.
C12_Witness ==
    /\ ipc = "saved"
    /\ ijob = "components"
    /\ Cardinality(IncludedSeries) >= 3
    /\ Cardinality(IncludedSeries) < Len(components)
    /\ Len(idoc.dates) = 1
    /\ \E name \in IncludedSeries : Cardinality(OwnLabels(name)) = 2
    /\ \E a, b \in IncludedSeries : EmittedSeries(a)[1] # EmittedSeries(b)[1]

=============================================================================
